---- MODULE Spec2Model ----
(***************************************************************************)
(* Model of the Home component of TestImageJIVA (src/unnamed/part_000):    *)
(* the session state held in React state hooks, the UI event handlers      *)
(* (image selection, crop, sliders, rotation, submit, reset) and the       *)
(* asynchronous handleSubmit, split at its suspension points (canvas       *)
(* toBlob, upload fetch, body parsing, convert fetch, body parsing).       *)
(***************************************************************************)
EXTENDS Integers, Sequences, FiniteSets, TLC

(***************************************************************************)
(* Bounds of the model.                                                    *)
(***************************************************************************)
\* Number of handleSubmit invocations the model can hold in flight at once.
MaxSlots == 2
\* The rotate buttons are followed up to this many quarter turns either way.
MaxTurns == 1
\* SpecRender draws the rotation state from -MaxRotation .. MaxRotation.
MaxRotation == 450
\* SpecFilter draws the grayscale state from -MaxGrayscale .. MaxGrayscale.
MaxGrayscale == 250
\* SpecTables draws data.extracted_tables from the sequences of at most
\* MaxTables entries.
MaxTables == 3

(***************************************************************************)
(* Program constants.                                                      *)
(***************************************************************************)
DefaultCropPercent == 80
DefaultCropOffset == 10
DefaultGrayscale == 0
DefaultContrast == 100
DefaultRotation == 0
QuarterTurn == 90
FullTurn == 360
GrayscaleMin == 0
GrayscaleMax == 100
ContrastMax == 150

(***************************************************************************)
(* JavaScript values.  Every value is a record with a tag t, so that       *)
(* values of different JavaScript types can be compared.  Objects keep     *)
(* their fields as a sequence of <<key, value>> pairs, in insertion order. *)
(***************************************************************************)
NULL == [t |-> "null"]
JUndef == [t |-> "undefined"]
JStr(s) == [t |-> "string", s |-> s]
JNum(n) == [t |-> "number", n |-> n]
JArr(a) == [t |-> "array", a |-> a]
JObj(f) == [t |-> "object", f |-> f]

\* o.k : the value of field k, undefined when o has no such field.
Get(o, k) ==
  IF o.t = "object" /\ \E i \in 1..Len(o.f) : o.f[i][1] = k
  THEN o.f[CHOOSE i \in 1..Len(o.f) : o.f[i][1] = k][2]
  ELSE JUndef

\* JavaScript truthiness, as used by `a ? b : c`, `a || b` and `!a`.
Truthy(v) ==
  CASE v.t = "undefined" -> FALSE
    [] v.t = "null" -> FALSE
    [] v.t = "string" -> v.s # ""
    [] v.t = "number" -> v.n # 0
    [] OTHER -> TRUE

\* a || b
OrElse(a, b) == IF Truthy(a) THEN a ELSE b

RECURSIVE JoinStrings(_, _)
\* Array.prototype.join on a sequence of strings.
JoinStrings(strs, sep) ==
  IF Len(strs) = 0 THEN ""
  ELSE IF Len(strs) = 1 THEN strs[1]
  ELSE strs[1] \o sep \o JoinStrings(Tail(strs), sep)

RECURSIVE Stringify(_)
\* JSON.stringify of a parsed JSON value.
Stringify(v) ==
  CASE v.t = "string" -> "\"" \o v.s \o "\""
    [] v.t = "number" -> ToString(v.n)
    [] v.t = "array" ->
         "[" \o JoinStrings([i \in 1..Len(v.a) |-> Stringify(v.a[i])], ",") \o "]"
    [] v.t = "object" ->
         "{" \o JoinStrings([i \in 1..Len(v.f) |->
                   "\"" \o v.f[i][1] \o "\":" \o Stringify(v.f[i][2])], ",") \o "}"
    [] OTHER -> "null"

RECURSIVE JsToString(_)
\* String(v), the conversion `new Error(v)` and Array.prototype.join apply.
JsToString(v) ==
  CASE v.t = "string" -> v.s
    [] v.t = "number" -> ToString(v.n)
    [] v.t = "array" ->
         JoinStrings([i \in 1..Len(v.a) |->
            IF v.a[i].t \in {"null", "undefined"} THEN "" ELSE JsToString(v.a[i])], ",")
    [] v.t = "object" -> "[object Object]"
    [] v.t = "null" -> "null"
    [] OTHER -> "undefined"

(***************************************************************************)
(* The environment the page is built with, the files the user can pick     *)
(* and the crops the crop widget can report.                               *)
(***************************************************************************)
\* process.env.X of an unset variable is undefined; it is falsy like "".
Unset == ""
ConvertUrlSettings == {Unset, "https://convert.test/convert-image"}
ConvertTokenSettings == {Unset, "tok"}
ParseUrlSettings == {Unset, "https://parse.test/upload"}
UploadUrlSettings == {Unset, "https://upload.test/upload"}
AllEnvs ==
  [NEXT_PUBLIC_CONVERT_API_URL : ConvertUrlSettings,
   NEXT_PUBLIC_CONVERT_API_TOKEN : ConvertTokenSettings,
   NEXT_PUBLIC_PARSE_URL : ParseUrlSettings,
   NEXT_PUBLIC_UPLOAD_API_URL : UploadUrlSettings]
\* The builds the model follows: every setting of the two convert variables
\* with the upload variables unset, and every setting of the two upload
\* variables with the convert variables set.
Envs ==
  {e \in AllEnvs :
     \/ e.NEXT_PUBLIC_PARSE_URL = Unset /\ e.NEXT_PUBLIC_UPLOAD_API_URL = Unset
     \/ e.NEXT_PUBLIC_CONVERT_API_URL # Unset /\ e.NEXT_PUBLIC_CONVERT_API_TOKEN # Unset}

\* A File together with what the <img> element reports once it has loaded
\* it: natural size and displayed size.  The displayed size divides the
\* natural size, so that naturalWidth / width is computed exactly.
MkFile(name, type, nw, nh, w, h) ==
  [t |-> "file", name |-> name, type |-> type,
   naturalWidth |-> nw, naturalHeight |-> nh, width |-> w, height |-> h]
Files == {MkFile("a.png", "image/png", 6, 4, 3, 2)}
RenderFiles == Files \cup {MkFile("b", "", 8, 2, 8, 1), MkFile("c.jpg", "image/jpeg", 3, 9, 1, 3)}

\* PixelCrop values in displayed pixels; a click without a drag reports an
\* empty crop.
MkCrop(unit, x, y, w, h) == [unit |-> unit, x |-> x, y |-> y, width |-> w, height |-> h]
PixelCrops == {MkCrop("px", 1, 0, 2, 1)}
RenderCrops ==
  PixelCrops \cup {MkCrop("px", 0, 0, 0, 0), MkCrop("px", 0, 0, 1, 1), MkCrop("px", 0, 1, 1, 0)}

VARIABLES
  env,              \* process.env, fixed when the page is built
  selectedImage,    \* useState<File | null>
  previewUrl,       \* useState<string | null>
  isSubmitting,     \* useState(false)
  apiResponse,      \* useState<ApiResponse | null>
  convertResponse,  \* useState<ConvertResponse | null>
  error,            \* useState<string | null>
  imageRef,         \* imageRef.current: the loaded <img>, or null
  crop,             \* useState<Crop>
  completedCrop,    \* useState<PixelCrop | null>
  grayscale,        \* useState(0)
  contrast,         \* useState(100)
  rotation,         \* useState(0)
  calls             \* the handleSubmit invocations, each with its position

vars == <<env, selectedImage, previewUrl, isSubmitting, apiResponse, convertResponse,
          error, imageRef, crop, completedCrop, grayscale, contrast, rotation, calls>>
session == <<selectedImage, previewUrl, isSubmitting, apiResponse, convertResponse, error>>
editor == <<crop, completedCrop, grayscale, contrast, rotation>>

Slots == 1..MaxSlots
\* A handleSubmit invocation: where it is suspended (pc), the file it was
\* started for, the canvas it waits for the blob of, the requests it has
\* issued so far, the status of the response it is reading and the upload
\* result it has parsed.
IdleCall == [pc |-> "idle", file |-> NULL, canvas |-> NULL, sent |-> <<>>, status |-> 0, data |-> NULL]
Running(c) == c.pc \notin {"idle", "done", "failed"}

buildDefaultCrop ==
  MkCrop("%", DefaultCropOffset, DefaultCropOffset, DefaultCropPercent, DefaultCropPercent)

Init ==
  /\ env \in Envs
  /\ selectedImage = NULL
  /\ previewUrl = NULL
  /\ isSubmitting = FALSE
  /\ apiResponse = NULL
  /\ convertResponse = NULL
  /\ error = NULL
  /\ imageRef = NULL
  /\ crop = buildDefaultCrop
  /\ completedCrop = NULL
  /\ grayscale = DefaultGrayscale
  /\ contrast = DefaultContrast
  /\ rotation = DefaultRotation
  /\ calls = [s \in Slots |-> IdleCall]

(***************************************************************************)
(* Configuration read at render time.                                      *)
(***************************************************************************)
convertApiUrl ==
  IF env.NEXT_PUBLIC_CONVERT_API_URL # ""
  THEN env.NEXT_PUBLIC_CONVERT_API_URL
  ELSE "http://localhost:3000/api/v1/growth-card/convert-image"
convertApiToken == env.NEXT_PUBLIC_CONVERT_API_TOKEN
uploadApiUrl ==
  IF env.NEXT_PUBLIC_PARSE_URL # ""
  THEN env.NEXT_PUBLIC_PARSE_URL
  ELSE "https://parse.jivalearningsystem.com/api/upload-to-tmpfiles"

(***************************************************************************)
(* Editor.                                                                 *)
(***************************************************************************)
JsMax(a, b) == IF a >= b THEN a ELSE b
JsMin(a, b) == IF a <= b THEN a ELSE b

\* A variant that bounds the grayscale value from above only.
appliedFilterNoLowerBound ==
  LET grayValue == JsMin(GrayscaleMax, grayscale)
  IN "grayscale(" \o ToString(grayValue) \o "%) contrast(" \o ToString(contrast) \o "%)"

\* The filter string baked into the preview and the canvas.
appliedFilter ==
  LET grayValue == JsMax(GrayscaleMin, JsMin(GrayscaleMax, grayscale))
  IN "grayscale(" \o ToString(grayValue) \o "%) contrast(" \o ToString(contrast) \o "%)"

\* A variant that leaves the rotation as it is.
resetEditorStateKeepsRotation ==
  /\ crop' = buildDefaultCrop
  /\ completedCrop' = NULL
  /\ grayscale' = DefaultGrayscale
  /\ contrast' = DefaultContrast
  /\ rotation' = rotation

resetEditorState ==
  /\ crop' = buildDefaultCrop
  /\ completedCrop' = NULL
  /\ grayscale' = DefaultGrayscale
  /\ contrast' = DefaultContrast
  /\ rotation' = DefaultRotation

\* The editor section, with its controls and both buttons, is rendered only
\* while previewUrl is set.
EditorShown == previewUrl # NULL

\* <input type="file" onChange={handleImageSelect}>
handleImageSelect(file) ==
  /\ selectedImage' = file
  /\ previewUrl' = JStr("blob:" \o file.name)
  /\ apiResponse' = NULL
  /\ convertResponse' = NULL
  /\ error' = NULL
  /\ resetEditorState
  /\ UNCHANGED <<env, isSubmitting, imageRef, calls>>

\* <img onLoad>: the element that shows previewUrl has loaded it.
ImageLoad ==
  /\ EditorShown
  /\ imageRef # selectedImage
  /\ imageRef' = selectedImage
  /\ UNCHANGED <<env, session, editor, calls>>

\* <ReactCrop onChange={(c) => setCrop(c)}>
CropChange(c) ==
  /\ EditorShown
  /\ crop' = c
  /\ UNCHANGED <<env, session, imageRef, completedCrop, grayscale, contrast, rotation, calls>>

\* <ReactCrop onComplete={(c) => setCompletedCrop(c)}>
CropComplete(c) ==
  /\ EditorShown
  /\ completedCrop' = c
  /\ UNCHANGED <<env, session, imageRef, crop, grayscale, contrast, rotation, calls>>

\* The two rotate buttons.
RotateLeft ==
  /\ EditorShown
  /\ rotation - QuarterTurn >= -(MaxTurns * QuarterTurn)
  /\ rotation' = rotation - QuarterTurn
  /\ UNCHANGED <<env, session, imageRef, crop, completedCrop, grayscale, contrast, calls>>

RotateRight ==
  /\ EditorShown
  /\ rotation + QuarterTurn <= MaxTurns * QuarterTurn
  /\ rotation' = rotation + QuarterTurn
  /\ UNCHANGED <<env, session, imageRef, crop, completedCrop, grayscale, contrast, calls>>

\* The grayscale slider (min 0, max 100) and the contrast slider.
SetGrayscale(v) ==
  /\ EditorShown
  /\ grayscale' = v
  /\ UNCHANGED <<env, session, imageRef, crop, completedCrop, contrast, rotation, calls>>

SetContrast(v) ==
  /\ EditorShown
  /\ contrast' = v
  /\ UNCHANGED <<env, session, imageRef, crop, completedCrop, grayscale, rotation, calls>>

\* The Reset button.
handleReset ==
  /\ selectedImage' = NULL
  /\ previewUrl' = NULL
  /\ apiResponse' = NULL
  /\ convertResponse' = NULL
  /\ error' = NULL
  /\ resetEditorState
  /\ UNCHANGED <<env, isSubmitting, imageRef, calls>>

ResetClick ==
  /\ EditorShown
  /\ handleReset

(***************************************************************************)
(* processImageForUpload: the canvas the edited image is drawn on.         *)
(***************************************************************************)
\* JavaScript's % on integers: the result takes the sign of the dividend.
JsRem(a, b) == IF a >= 0 THEN a % b ELSE -((-a) % b)

\* A variant with a single remainder, which keeps the sign of the rotation.
NormalizeRotationOneRem(r) == JsRem(r, FullTurn)

NormalizeRotation(r) == JsRem(JsRem(r, FullTurn) + FullTurn, FullTurn)

\* The synchronous part of processImageForUpload once the <img> and the 2d
\* context are there: crop rectangle, canvas size, filter, rotation.
RenderCanvas(img, cc, rot, filter) ==
  LET scaleX == img.naturalWidth \div img.width
      scaleY == img.naturalHeight \div img.height
      activeCrop ==
        IF cc # NULL /\ cc.width > 0 /\ cc.height > 0
        THEN cc
        ELSE [x |-> 0, y |-> 0, width |-> img.width, height |-> img.height]
      normalizedRotation == NormalizeRotation(rot)
      isRotated90or270 ==
        normalizedRotation = QuarterTurn \/ normalizedRotation = 3 * QuarterTurn
      sourceWidth == activeCrop.width * scaleX
      sourceHeight == activeCrop.height * scaleY
  IN [t |-> "canvas",
      width |-> IF isRotated90or270 THEN sourceHeight ELSE sourceWidth,
      height |-> IF isRotated90or270 THEN sourceWidth ELSE sourceHeight,
      filter |-> filter,
      rotate |-> normalizedRotation]

\* What processImageForUpload has done when it first suspends or returns:
\* thrown, returned the selected file untouched, or drawn the canvas and
\* asked for its blob.  ctxOk: whether canvas.getContext("2d") gave a context.
processImageForUpload(ctxOk) ==
  IF selectedImage = NULL
  THEN [kind |-> "throw", message |-> "No image selected"]
  ELSE IF imageRef = NULL
  THEN [kind |-> "file", file |-> selectedImage]
  ELSE IF ~ctxOk
  THEN [kind |-> "throw", message |-> "Canvas is not supported in this browser"]
  ELSE [kind |-> "canvas",
        canvas |-> RenderCanvas(imageRef, completedCrop, rotation, appliedFilter)]

\* The type of the blob canvas.toBlob(cb, type) produces: the requested type
\* when the browser can encode it, image/png otherwise.
BlobType(requested) ==
  IF requested \in {"image/png", "image/jpeg"} THEN requested ELSE "image/png"

\* new File([blob], selectedImage.name, {type: ...}) in the toBlob callback.
ProcessedFile(file, canvas) ==
  LET blobType == BlobType(IF file.type # "" THEN file.type ELSE "image/jpeg")
  IN [name |-> file.name,
      type |-> IF file.type # "" THEN file.type
               ELSE IF blobType # "" THEN blobType ELSE "image/jpeg"]

\* The selected file, uploaded as it is.
OriginalFile(file) ==
  [name |-> file.name, type |-> file.type]

(***************************************************************************)
(* The two requests.                                                       *)
(***************************************************************************)
UploadRequest(image) ==
  [api |-> "upload", to |-> uploadApiUrl, method |-> "POST", image |-> image]

\* The form data and headers submitConvertImage sends; the five metadata
\* fields carry their defaults.
ConvertRequest(imageUrl) ==
  [api |-> "convert", to |-> convertApiUrl, method |-> "POST",
   Authorization |-> "Bearer " \o convertApiToken,
   image_url |-> imageUrl,
   entityType |-> "dkn_report", entityId |-> "0", class_id |-> "132",
   school_id |-> "215", academic_year |-> "2025-2026"]

ConfigErrorMessage == "Convert API configuration missing. Check environment variables."

\* The guard at the head of submitConvertImage.
ConvertConfigMissing == convertApiUrl = "" \/ convertApiToken = ""

\* Variants of the guard: forwarding whatever the upload returned, and the
\* test inverted.
ShouldConvertAlways(data) == TRUE
ShouldConvertInverted(data) == ~Truthy(Get(data, "url"))

\* if (data.url)
ShouldConvert(data) == Truthy(Get(data, "url"))

StatusText(status) ==
  CASE status = 200 -> "OK"
    [] status = 413 -> "Payload Too Large"
    [] status = 500 -> "Internal Server Error"
    [] OTHER -> ""

\* response.ok
Ok(status) == status >= 200 /\ status <= 299

\* A variant that does not look into a sequence of sub-errors.
UploadErrorMessageNoList(errorData, status) ==
  LET detail == Get(errorData, "detail")
  IN IF Truthy(detail)
     THEN IF detail.t = "string" THEN detail.s ELSE Stringify(detail)
     ELSE "API error: " \o ToString(status) \o " " \o StatusText(status)

\* The message handleSubmit throws for a non-2xx upload response whose body
\* parsed to errorData ({} when it did not parse).
UploadErrorMessage(errorData, status) ==
  LET detail == Get(errorData, "detail")
  IN IF Truthy(detail)
     THEN IF detail.t = "array"
          THEN IF \E i \in 1..Len(detail.a) : detail.a[i].t = "null"
               THEN "Cannot read properties of null (reading 'msg')"
               ELSE
               JoinStrings([i \in 1..Len(detail.a) |->
                  JsToString(OrElse(Get(detail.a[i], "msg"),
                                    JStr(Stringify(detail.a[i]))))], ", ")
          ELSE IF detail.t = "string"
          THEN detail.s
          ELSE Stringify(detail)
     ELSE "API error: " \o ToString(status) \o " " \o StatusText(status)

\* A variant that looks at detail before message.
ConvertErrorMessageDetailFirst(convertError, status) ==
  JsToString(
    OrElse(Get(convertError, "detail"),
      OrElse(Get(convertError, "message"),
        JStr("Convert API error: " \o ToString(status) \o " " \o StatusText(status)))))

\* The message submitConvertImage throws for a non-2xx convert response.
ConvertErrorMessage(convertError, status) ==
  JsToString(
    OrElse(Get(convertError, "message"),
      OrElse(Get(convertError, "detail"),
        JStr("Convert API error: " \o ToString(status) \o " " \o StatusText(status)))))

(***************************************************************************)
(* What the two servers can answer.                                        *)
(***************************************************************************)
Statuses == {200, 413, 500}
\* A body response.json() rejects on.
Unparseable == [t |-> "unparseable"]
JsonSyntaxError == "Unexpected end of JSON input"
FetchTypeError == "Failed to fetch"

UploadData(url) ==
  JObj(<< <<"status", JStr("success")>>, <<"filename", JStr("a.png")>> >> \o url)
UploadOkBodies ==
  { UploadData(<< <<"url", JStr("http://x/a.png")>> >>),
    UploadData(<< <<"url", JStr("http://x/b.png")>> >>),
    UploadData(<< <<"url", JStr("")>> >>),
    UploadData(<< >>) }

Detail(d) == JObj(<< <<"detail", d>> >>)
SubError(m) == JObj(<< <<"msg", JStr(m)>> >>)
UploadErrorBodies ==
  { JObj(<< >>),
    Detail(JStr("bad file")),
    Detail(JStr("")),
    Detail(JArr(<< >>)),
    Detail(JArr(<< SubError("too large") >>)),
    Detail(JArr(<< SubError("too large"), SubError("wrong type") >>)),
    Detail(JArr(<< JObj(<< <<"loc", JStr("body")>> >>), SubError("too large") >>)),
    Detail(JArr(<< SubError("") >>)),
    Detail(JObj(<< <<"code", JNum(7)>> >>)) }

ConvertErrorBodies ==
  { JObj(<< >>),
    JObj(<< <<"message", JStr("bad image")>> >>),
    JObj(<< <<"detail", JStr("not found")>> >>),
    JObj(<< <<"message", JStr("bad image")>>, <<"detail", JStr("not found")>> >>),
    JObj(<< <<"message", JStr("")>>, <<"detail", JStr("not found")>> >>) }

ConvertOkBodies ==
  { JObj(<< >>),
    JObj(<< <<"url", JStr("http://y/card.png")>> >>) }

(***************************************************************************)
(* handleSubmit, one action per stretch between two suspension points.     *)
(***************************************************************************)
\* handleSubmit has returned: what stays is its outcome, with the requests it
\* issued and the upload result it parsed.
Returned(c, outcome) == [IdleCall EXCEPT !.pc = outcome, !.sent = c.sent, !.data = c.data]

\* A variant of the catch block without the finally block.
FailWithoutFinally(s, message) ==
  /\ error' = JStr(message)
  /\ isSubmitting' = isSubmitting
  /\ calls' = [calls EXCEPT ![s] = Returned(calls[s], "failed")]

\* catch (err) { setError(err.message) } finally { setIsSubmitting(false) }
Fail(s, message) ==
  /\ error' = JStr(message)
  /\ isSubmitting' = FALSE
  /\ calls' = [calls EXCEPT ![s] = Returned(calls[s], "failed")]

\* A variant of the button that is never disabled.
SubmitNeverDisabled == FALSE

\* <button onClick={handleSubmit} disabled={isSubmitting}>
SubmitDisabled == isSubmitting

\* A variant of handleSubmit that also drops the stored upload result.
handleSubmitClearsUploadResult(s, ctxOk) ==
  IF selectedImage = NULL
  THEN UNCHANGED vars
  ELSE
    LET r == processImageForUpload(ctxOk)
        call == [IdleCall EXCEPT !.file = selectedImage]
    IN /\ convertResponse' = NULL
       /\ apiResponse' = NULL
       /\ CASE r.kind = "throw" ->
                 /\ error' = JStr(r.message)
                 /\ isSubmitting' = FALSE
                 /\ calls' = [calls EXCEPT ![s] = Returned(call, "failed")]
            [] r.kind = "file" ->
                 /\ error' = NULL
                 /\ isSubmitting' = TRUE
                 /\ calls' = [calls EXCEPT ![s] =
                      [call EXCEPT !.pc = "upload",
                                   !.sent = <<UploadRequest(OriginalFile(r.file))>>]]
            [] r.kind = "canvas" ->
                 /\ error' = NULL
                 /\ isSubmitting' = TRUE
                 /\ calls' = [calls EXCEPT ![s] =
                      [call EXCEPT !.pc = "render", !.canvas = r.canvas]]
       /\ UNCHANGED <<env, selectedImage, previewUrl, imageRef, editor>>

\* From the click to the first suspension: the state resets, then
\* processImageForUpload up to canvas.toBlob, or straight on to the upload
\* fetch when no <img> has loaded, or into the catch block when it threw.
handleSubmit(s, ctxOk) ==
  IF selectedImage = NULL
  THEN UNCHANGED vars
  ELSE
    LET r == processImageForUpload(ctxOk)
        call == [IdleCall EXCEPT !.file = selectedImage]
    IN /\ convertResponse' = NULL
       /\ CASE r.kind = "throw" ->
                 /\ error' = JStr(r.message)
                 /\ isSubmitting' = FALSE
                 /\ calls' = [calls EXCEPT ![s] = Returned(call, "failed")]
            [] r.kind = "file" ->
                 /\ error' = NULL
                 /\ isSubmitting' = TRUE
                 /\ calls' = [calls EXCEPT ![s] =
                      [call EXCEPT !.pc = "upload",
                                   !.sent = <<UploadRequest(OriginalFile(r.file))>>]]
            [] r.kind = "canvas" ->
                 /\ error' = NULL
                 /\ isSubmitting' = TRUE
                 /\ calls' = [calls EXCEPT ![s] =
                      [call EXCEPT !.pc = "render", !.canvas = r.canvas]]
       /\ UNCHANGED <<env, selectedImage, previewUrl, apiResponse, imageRef, editor>>

\* A click on the Submit button; the invocation takes the first free slot.
SubmitClick ==
  /\ EditorShown
  /\ ~SubmitDisabled
  /\ \E s \in Slots :
       /\ ~Running(calls[s])
       /\ \A u \in Slots : u < s => Running(calls[u])
       /\ \E ctxOk \in BOOLEAN : handleSubmit(s, ctxOk)

\* The canvas.toBlob callback: a blob, or null.
ToBlobDone(s, blobOk) ==
  /\ calls[s].pc = "render"
  /\ IF blobOk
     THEN /\ calls' = [calls EXCEPT
                ![s].pc = "upload",
                ![s].canvas = NULL,
                ![s].sent = <<UploadRequest(ProcessedFile(calls[s].file, calls[s].canvas))>>]
          /\ UNCHANGED <<error, isSubmitting>>
     ELSE Fail(s, "Failed to process image")
  /\ UNCHANGED <<env, selectedImage, previewUrl, apiResponse, convertResponse,
                 imageRef, editor>>

\* The upload fetch settles: a response with a status, or a transport failure.
UploadSettles(s, reached, status) ==
  /\ calls[s].pc = "upload"
  /\ IF reached
     THEN /\ calls' = [calls EXCEPT
                ![s].pc = IF Ok(status) THEN "uploadBody" ELSE "uploadErrorBody",
                ![s].status = status]
          /\ UNCHANGED <<error, isSubmitting>>
     ELSE Fail(s, FetchTypeError)
  /\ UNCHANGED <<env, selectedImage, previewUrl, apiResponse, convertResponse,
                 imageRef, editor>>

\* The body of a non-2xx upload response has been read.
UploadErrorBody(s, body) ==
  /\ calls[s].pc = "uploadErrorBody"
  /\ LET errorData == IF body = Unparseable THEN JObj(<< >>) ELSE body
     IN Fail(s, UploadErrorMessage(errorData, calls[s].status))
  /\ UNCHANGED <<env, selectedImage, previewUrl, apiResponse, convertResponse,
                 imageRef, editor>>

\* The body of a 2xx upload response has been read: the result is stored and,
\* when it has a url, submitConvertImage runs up to its fetch.
UploadBody(s, body) ==
  /\ calls[s].pc = "uploadBody"
  /\ IF body = Unparseable
     THEN /\ Fail(s, JsonSyntaxError)
          /\ UNCHANGED apiResponse
     ELSE /\ apiResponse' = body
          /\ IF ShouldConvert(body)
             THEN IF ConvertConfigMissing
                  THEN /\ error' = JStr(ConfigErrorMessage)
                       /\ isSubmitting' = FALSE
                       /\ calls' = [calls EXCEPT
                             ![s] = Returned([calls[s] EXCEPT !.data = body], "failed")]
                  ELSE /\ calls' = [calls EXCEPT
                             ![s].pc = "convert",
                             ![s].data = body,
                             ![s].sent = @ \o <<ConvertRequest(JsToString(Get(body, "url")))>>]
                       /\ UNCHANGED <<error, isSubmitting>>
             ELSE /\ isSubmitting' = FALSE
                  /\ calls' = [calls EXCEPT
                        ![s] = Returned([calls[s] EXCEPT !.data = body], "done")]
                  /\ UNCHANGED error
  /\ UNCHANGED <<env, selectedImage, previewUrl, convertResponse, imageRef, editor>>

\* The convert fetch settles.
ConvertSettles(s, reached, status) ==
  /\ calls[s].pc = "convert"
  /\ IF reached
     THEN /\ calls' = [calls EXCEPT
                ![s].pc = IF Ok(status) THEN "convertBody" ELSE "convertErrorBody",
                ![s].status = status]
          /\ UNCHANGED <<error, isSubmitting>>
     ELSE Fail(s, FetchTypeError)
  /\ UNCHANGED <<env, selectedImage, previewUrl, apiResponse, convertResponse,
                 imageRef, editor>>

\* The body of a non-2xx convert response has been read.
ConvertErrorBody(s, body) ==
  /\ calls[s].pc = "convertErrorBody"
  /\ LET convertError == IF body = Unparseable THEN JObj(<< >>) ELSE body
     IN Fail(s, ConvertErrorMessage(convertError, calls[s].status))
  /\ UNCHANGED <<env, selectedImage, previewUrl, apiResponse, convertResponse,
                 imageRef, editor>>

\* The body of a 2xx convert response has been read.
ConvertBody(s, body) ==
  /\ calls[s].pc = "convertBody"
  /\ IF body = Unparseable
     THEN /\ Fail(s, JsonSyntaxError)
          /\ UNCHANGED convertResponse
     ELSE /\ convertResponse' = body
          /\ isSubmitting' = FALSE
          /\ calls' = [calls EXCEPT ![s] = Returned(calls[s], "done")]
          /\ UNCHANGED error
  /\ UNCHANGED <<env, selectedImage, previewUrl, apiResponse, imageRef, editor>>

(***************************************************************************)
(* The page: user events and completions, in any order.                    *)
(***************************************************************************)
GrayscaleChoices == {GrayscaleMin, GrayscaleMax}
ContrastChoices == {DefaultContrast, ContrastMax}

Next ==
  \/ \E file \in Files : handleImageSelect(file)
  \/ ImageLoad
  \/ \E c \in PixelCrops : CropChange(c)
  \/ \E c \in PixelCrops : CropComplete(c)
  \/ RotateLeft
  \/ RotateRight
  \/ \E v \in GrayscaleChoices : SetGrayscale(v)
  \/ \E v \in ContrastChoices : SetContrast(v)
  \/ ResetClick
  \/ SubmitClick
  \/ \E s \in Slots, blobOk \in BOOLEAN : ToBlobDone(s, blobOk)
  \/ \E s \in Slots, reached \in BOOLEAN, status \in Statuses : UploadSettles(s, reached, status)
  \/ \E s \in Slots, body \in UploadErrorBodies \cup {Unparseable} : UploadErrorBody(s, body)
  \/ \E s \in Slots, body \in UploadOkBodies \cup {Unparseable} : UploadBody(s, body)
  \/ \E s \in Slots, reached \in BOOLEAN, status \in Statuses : ConvertSettles(s, reached, status)
  \/ \E s \in Slots, body \in ConvertErrorBodies \cup {Unparseable} : ConvertErrorBody(s, body)
  \/ \E s \in Slots, body \in ConvertOkBodies \cup {Unparseable} : ConvertBody(s, body)

Spec == Init /\ [][Next]_vars

(***************************************************************************)
(* The render step on its own: the editor state is drawn from wider sets   *)
(* than the controls of the page reach (any integer rotation, any crop),   *)
(* and Submit is clicked once.                                             *)
(***************************************************************************)
InitRender ==
  /\ env \in {e \in Envs : \A k \in DOMAIN e : e[k] # Unset}
  /\ selectedImage \in RenderFiles
  /\ previewUrl = JStr("blob:" \o selectedImage.name)
  /\ isSubmitting = FALSE
  /\ apiResponse = NULL
  /\ convertResponse = NULL
  /\ error = NULL
  /\ imageRef \in {NULL, selectedImage}
  /\ crop = buildDefaultCrop
  /\ completedCrop \in {NULL} \cup RenderCrops
  /\ grayscale = DefaultGrayscale
  /\ contrast = DefaultContrast
  /\ rotation \in -MaxRotation .. MaxRotation
  /\ calls = [s \in Slots |-> IdleCall]

NextRender == SubmitClick

SpecRender == InitRender /\ [][NextRender]_vars

(***************************************************************************)
(* Properties.                                                             *)
(***************************************************************************)
\* The image_url fields of the Convert requests a handleSubmit invocation
\* has issued, in order.
RECURSIVE ConvertCalls(_)
ConvertCalls(sent) ==
  IF sent = <<>> THEN <<>>
  ELSE (IF Head(sent).api = "convert" THEN <<Head(sent).image_url>> ELSE <<>>)
       \o ConvertCalls(Tail(sent))

\* The upload answered 2xx with a body that parsed and carries a non-empty
\* string url.
GotUrl(c) ==
  /\ c.data # NULL
  /\ Get(c.data, "url").t = "string"
  /\ Get(c.data, "url").s # ""

\* Every Convert call was issued after the Upload request of the same
\* submit, once its response had been parsed, for the url of that response.
ConvertFollowsUpload(c) ==
  ConvertCalls(c.sent) # <<>> =>
    /\ GotUrl(c)
    /\ Len(c.sent) = 2
    /\ c.sent[1].api = "upload"
    /\ c.sent[2].api = "convert"
    /\ c.sent[2].image_url = Get(c.data, "url").s

\* C1, as stated: in every submit whose Upload answered 2xx with a parseable
\* body with a non-empty string url, exactly one Convert call has been
\* issued, after the Upload response, with image_url equal to that url.
C1_ConvertIssuedForEveryUrl ==
  \A s \in Slots :
    /\ GotUrl(calls[s]) => ConvertCalls(calls[s].sent) = <<Get(calls[s].data, "url").s>>
    /\ ConvertFollowsUpload(calls[s])

\* C1, amended: the same, provided the Convert bearer token is configured;
\* without it no Convert call is issued at all.
C1_ConvertIssuedWhenConfigured ==
  \A s \in Slots :
    /\ (GotUrl(calls[s]) /\ env.NEXT_PUBLIC_CONVERT_API_TOKEN # Unset)
         => ConvertCalls(calls[s].sent) = <<Get(calls[s].data, "url").s>>
    /\ (GotUrl(calls[s]) /\ env.NEXT_PUBLIC_CONVERT_API_TOKEN = Unset)
         => ConvertCalls(calls[s].sent) = <<>>
    /\ ConvertFollowsUpload(calls[s])

\* A submit that received the url http://x/b.png is waiting for the Convert
\* response to the one request it issued for it.
C1_Witness ==
  \E s \in Slots :
    /\ calls[s].pc = "convert"
    /\ GotUrl(calls[s])
    /\ ConvertCalls(calls[s].sent) = <<"http://x/b.png">>

\* The upload result has no url: the field is absent or the empty string.
NoUrl(data) == Get(data, "url") \in {JUndef, JStr("")}

\* C2: the step that reads a 2xx Upload body without a url ends the submit
\* in Done: no Convert call, the UploadResult stored, error still null and
\* isSubmitting false again.
C2_NoUrlEndsDone ==
  [][\A s \in Slots :
       (/\ calls[s].pc = "uploadBody"
        /\ calls'[s].pc # "uploadBody"
        /\ calls'[s].data # NULL
        /\ NoUrl(calls'[s].data))
       => /\ calls'[s].pc = "done"
          /\ ConvertCalls(calls'[s].sent) = <<>>
          /\ apiResponse' = calls'[s].data
          /\ error = NULL /\ error' = NULL
          /\ isSubmitting /\ ~isSubmitting']_vars

\* A submit has ended in Done on an upload result without the url field.
C2_Witness ==
  \E s \in Slots :
    /\ calls[s].pc = "done"
    /\ calls[s].data # NULL
    /\ Get(calls[s].data, "url") = JUndef
    /\ apiResponse = calls[s].data
    /\ error = NULL
    /\ ~isSubmitting

\* The orchestrator is in Failed: the last submit has returned with an error.
Failed ==
  /\ error # NULL
  /\ ~isSubmitting
  /\ \A s \in Slots : ~Running(calls[s])

\* The values the session fields have when the page is first loaded.
FirstLoad ==
  /\ selectedImage = NULL
  /\ previewUrl = NULL
  /\ apiResponse = NULL
  /\ convertResponse = NULL
  /\ error = NULL
  /\ isSubmitting = FALSE
  /\ crop = [unit |-> "%", x |-> 10, y |-> 10, width |-> 80, height |-> 80]
  /\ completedCrop = NULL
  /\ grayscale = 0
  /\ contrast = 100
  /\ rotation = 0

C4_ResetDiscardsInFlightResults ==
  [][(/\ selectedImage = NULL
      /\ apiResponse = NULL /\ convertResponse = NULL /\ error = NULL)
     => (apiResponse' = NULL /\ convertResponse' = NULL /\ error' = NULL)]_vars

\* C5: at most one handleSubmit is in flight, and while one is in flight
\* isSubmitting is true, which disables the Submit button.
C5_OneSubmitInFlight ==
  /\ Cardinality({s \in Slots : Running(calls[s])}) <= 1
  /\ (\E s \in Slots : Running(calls[s])) => isSubmitting

\* A submit is in flight whose upload result has since been cleared by a
\* reset or a new selection: the Submit button is shown and is disabled.
C5_Witness ==
  /\ EditorShown
  /\ isSubmitting
  /\ \E s \in Slots : calls[s].pc = "convert"
  /\ apiResponse = NULL

\* The field k of a parsed body, when it is a non-empty string.
HasText(o, k) == Get(o, k).t = "string" /\ Get(o, k).s # ""

\* What C6 says a sub-error is reduced to: its msg, or itself stringified.
C6_Reduced(d) == IF HasText(d, "msg") THEN Get(d, "msg").s ELSE Stringify(d)

RECURSIVE C6_Joined(_)
C6_Joined(ds) ==
  IF ds = <<>> THEN ""
  ELSE C6_Reduced(Head(ds)) \o (IF Len(ds) > 1 THEN ", " ELSE "") \o C6_Joined(Tail(ds))

C7_ConvertErrorFails ==
  [][\A s \in Slots, body \in ConvertErrorBodies \cup {Unparseable} :
       ConvertErrorBody(s, body) =>
         LET b == IF body = Unparseable THEN JObj(<< >>) ELSE body
         IN /\ calls'[s].pc = "failed"
            /\ convertResponse = NULL /\ convertResponse' = NULL
            /\ ~isSubmitting'
            /\ error'.t = "string"
            /\ HasText(b, "message") => error'.s = Get(b, "message").s
            /\ (~HasText(b, "message") /\ HasText(b, "detail"))
                 => error'.s = Get(b, "detail").s
            /\ (~HasText(b, "message") /\ ~HasText(b, "detail") /\ calls[s].status = 500)
                 => error'.s = "Convert API error: 500 Internal Server Error"
            /\ (~HasText(b, "message") /\ ~HasText(b, "detail") /\ calls[s].status = 413)
                 => error'.s = "Convert API error: 413 Payload Too Large"]_vars

\* A submit has failed on a Convert error, with the body's message shown.
C7_Witness ==
  /\ error = JStr("bad image")
  /\ convertResponse = NULL
  /\ \E s \in Slots : calls[s].pc = "failed" /\ ConvertCalls(calls[s].sent) # <<>>

\* C8, as stated: when the Convert token or the Convert endpoint URL is not
\* configured, no Convert request is ever issued, and a submit whose upload
\* returned a url has failed with the configuration-error message.
C8_MissingConfigFailsFast ==
  (env.NEXT_PUBLIC_CONVERT_API_TOKEN = Unset \/ env.NEXT_PUBLIC_CONVERT_API_URL = Unset)
    => \A s \in Slots :
         /\ ConvertCalls(calls[s].sent) = <<>>
         /\ (GotUrl(calls[s]) /\ ~isSubmitting /\ error # NULL)
              => error = JStr(ConfigErrorMessage)

\* The error section is rendered: {error && ...}.
ErrorShown == error # NULL /\ error.s # ""

\* C9, as stated: whenever a submit ends in failure, a non-empty message is
\* in error and the error section is shown.
C9_EveryFailureShowsMessage ==
  [][\A s \in Slots :
       (calls'[s].pc = "failed" /\ (Running(calls[s]) \/ SubmitClick))
         => ErrorShown']_vars

\* rotation mod 360, in [0, 360).
C10_Normalized == rotation % 360

\* The natural size of the region drawn: the completed crop when it is not
\* empty, the whole displayed image otherwise, scaled to natural pixels.
C10_HasCrop == completedCrop # NULL /\ completedCrop.width > 0 /\ completedCrop.height > 0
C10_RegionWidth ==
  (IF C10_HasCrop THEN completedCrop.width ELSE imageRef.width)
    * (imageRef.naturalWidth \div imageRef.width)
C10_RegionHeight ==
  (IF C10_HasCrop THEN completedCrop.height ELSE imageRef.height)
    * (imageRef.naturalHeight \div imageRef.height)

\* C10: the canvas a submit has drawn is rotated by the rotation normalized
\* into [0, 360); at 90 and 270 its width is the region's natural height and
\* its height the region's natural width, at 0 and 180 (and every other
\* angle) its size is the region's natural size.
C10_CanvasSize ==
  \A s \in Slots :
    calls[s].pc = "render" =>
      LET canvas == calls[s].canvas
      IN /\ canvas.rotate = C10_Normalized
         /\ canvas.rotate >= 0 /\ canvas.rotate < 360
         /\ C10_Normalized \in {90, 270}
              => canvas.width = C10_RegionHeight /\ canvas.height = C10_RegionWidth
         /\ C10_Normalized \notin {90, 270}
              => canvas.width = C10_RegionWidth /\ canvas.height = C10_RegionHeight

\* A canvas drawn at a negative rotation that normalizes to 270, for a
\* cropped region that is not square: width and height are swapped.
C10_Witness ==
  \E s \in Slots :
    /\ calls[s].pc = "render"
    /\ rotation = -90 - 360
    /\ calls[s].canvas.rotate = 270
    /\ C10_HasCrop
    /\ C10_RegionWidth # C10_RegionHeight
    /\ calls[s].canvas.width = C10_RegionHeight

(***************************************************************************)
(* The filter on its own: grayscale and contrast are drawn from wider sets *)
(* than the two sliders reach, and Submit is clicked once.                 *)
(***************************************************************************)
ContrastInputs == {0, 50, 100, 150, 300}

InitFilter ==
  /\ env \in {e \in Envs : \A k \in DOMAIN e : e[k] # Unset}
  /\ selectedImage \in Files
  /\ previewUrl = JStr("blob:" \o selectedImage.name)
  /\ isSubmitting = FALSE
  /\ apiResponse = NULL
  /\ convertResponse = NULL
  /\ error = NULL
  /\ imageRef = selectedImage
  /\ crop = buildDefaultCrop
  /\ completedCrop = NULL
  /\ grayscale \in -MaxGrayscale .. MaxGrayscale
  /\ contrast \in ContrastInputs
  /\ rotation = DefaultRotation
  /\ calls = [s \in Slots |-> IdleCall]

NextFilter == SubmitClick

SpecFilter == InitFilter /\ [][NextFilter]_vars

\* The grayscale intensity C11 expects for the grayscale state.
C11_Intensity ==
  IF grayscale < 0 THEN 0 ELSE IF grayscale > 100 THEN 100 ELSE grayscale

C11_Filter ==
  "grayscale(" \o ToString(C11_Intensity) \o "%) contrast(" \o ToString(contrast) \o "%)"

\* C11: the filter of the preview, and the filter set on every canvas drawn,
\* carries the grayscale state clamped into [0, 100] (below 0 gives 0, above
\* 100 gives 100, in range unchanged) and the contrast state as it is.
C11_GrayscaleClamped ==
  /\ C11_Intensity >= 0 /\ C11_Intensity <= 100
  /\ appliedFilter = C11_Filter
  /\ \A s \in Slots : calls[s].pc = "render" => calls[s].canvas.filter = C11_Filter

\* A canvas has been drawn with the grayscale state at -10 and the contrast
\* at 300: its filter is grayscale(0%) contrast(300%).
C11_Witness ==
  /\ grayscale = -10
  /\ \E s \in Slots :
       /\ calls[s].pc = "render"
       /\ calls[s].canvas.filter = "grayscale(0%) contrast(300%)"

(***************************************************************************)
(* The tables of a convert response.                                       *)
(***************************************************************************)
\* typeof v === "object"
TypeofObject(v) == v.t \in {"null", "object", "array"}

\* Array.isArray(v)
IsArray(v) == v.t = "array"

\* k in o, for an o that is an object or an array.
In(k, o) == o.t = "object" /\ \E i \in 1..Len(o.f) : o.f[i][1] = k

\* What `k in o` and `o.k` raise when o is null, undefined or a primitive.
TypeErrorThrown == [t |-> "TypeError"]

\* A variant of the map step that only looks at columns.
ConvertTableOfColumnsOnly(table) ==
  IF ~TypeofObject(table) \/ ~Truthy(table) \/ ~IsArray(Get(table, "columns"))
  THEN NULL
  ELSE JObj(<< <<"columns", Get(table, "columns")>>, <<"rows", Get(table, "rows")>> >>)

\* The map step of extractConvertTables: null, or the entry cut down to its
\* columns and rows.
ConvertTableOf(table) ==
  IF \/ ~TypeofObject(table)
     \/ ~Truthy(table)
     \/ ~IsArray(Get(table, "columns"))
     \/ ~IsArray(Get(table, "rows"))
  THEN NULL
  ELSE JObj(<< <<"columns", Get(table, "columns")>>, <<"rows", Get(table, "rows")>> >>)

\* extractConvertTables, its guards in the order the code evaluates them.
extractConvertTables(response) ==
  IF ~Truthy(response) THEN JArr(<< >>)
  ELSE IF ~TypeofObject(response) THEN JArr(<< >>)
  ELSE IF response.t \notin {"object", "array"} THEN TypeErrorThrown
  ELSE IF ~In("data", response) THEN JArr(<< >>)
  ELSE IF ~TypeofObject(Get(response, "data")) THEN JArr(<< >>)
  ELSE IF ~Truthy(Get(response, "data")) THEN JArr(<< >>)
  ELSE LET tables == Get(Get(response, "data"), "extracted_tables")
       IN IF ~IsArray(tables) THEN JArr(<< >>)
          ELSE JArr(SelectSeq([i \in 1..Len(tables.a) |-> ConvertTableOf(tables.a[i])],
                              LAMBDA table : Truthy(table)))

\* The memoised tables of the stored convert response.
convertTables == extractConvertTables(convertResponse)

Cells(strs) == JArr([i \in 1..Len(strs) |-> JStr(strs[i])])
DayTable ==
  JObj(<< <<"columns", Cells(<<"Day">>)>>, <<"rows", JArr(<<Cells(<<"1">>)>>)>> >>)
ScoreTable ==
  JObj(<< <<"title", JStr("scores")>>,
          <<"rows", JArr(<< >>)>>,
          <<"columns", Cells(<<"Name", "Score">>)>> >>)

\* What data.extracted_tables may hold: two well-formed tables, a table
\* without rows, a table whose rows are no sequence, null, a string, a
\* sequence.
TableEntries ==
  { DayTable,
    ScoreTable,
    JObj(<< <<"columns", Cells(<<"Day">>)>> >>),
    JObj(<< <<"columns", Cells(<<"Day">>)>>, <<"rows", JStr("1")>> >>),
    NULL,
    JStr("table"),
    JArr(<< >>) }

TableLists == UNION {[1..n -> TableEntries] : n \in 0..MaxTables}

WithData(data) == JObj(<< <<"success", [t |-> "boolean", b |-> TRUE]>>, <<"data", data>> >>)

\* Convert responses answered with 2xx and a body that parses.
TableBodies ==
  {WithData(JObj(<< <<"extracted_tables", JArr(l)>> >>)) : l \in TableLists}
  \cup { NULL,
         JStr("ok"),
         JArr(<< >>),
         JObj(<< >>),
         WithData(NULL),
         WithData(JStr("none")),
         WithData(JArr(<<DayTable>>)),
         WithData(JObj(<< >>)),
         WithData(JObj(<< <<"extracted_tables", NULL>> >>)),
         WithData(JObj(<< <<"extracted_tables", DayTable>> >>)),
         WithData(JObj(<< <<"extracted_tables", JStr("none")>> >>)) }

TablesUpload == UploadData(<< <<"url", JStr("http://x/a.png")>> >>)

InitTables ==
  /\ env \in {e \in Envs : \A k \in DOMAIN e : e[k] # Unset}
  /\ selectedImage \in Files
  /\ previewUrl = JStr("blob:" \o selectedImage.name)
  /\ isSubmitting = FALSE
  /\ apiResponse = NULL
  /\ convertResponse = NULL
  /\ error = NULL
  /\ imageRef = NULL
  /\ crop = buildDefaultCrop
  /\ completedCrop = NULL
  /\ grayscale = DefaultGrayscale
  /\ contrast = DefaultContrast
  /\ rotation = DefaultRotation
  /\ calls = [s \in Slots |-> IdleCall]

NextTables ==
  \/ SubmitClick
  \/ \E s \in Slots : UploadSettles(s, TRUE, 200)
  \/ \E s \in Slots : UploadBody(s, TablesUpload)
  \/ \E s \in Slots : ConvertSettles(s, TRUE, 200)
  \/ \E s \in Slots, body \in TableBodies : ConvertBody(s, body)

SpecTables == InitTables /\ [][NextTables]_vars

\* An entry C12 keeps: a non-null object whose columns and rows are both
\* sequences.
C12_WellFormed(entry) ==
  /\ entry.t = "object"
  /\ Get(entry, "columns").t = "array"
  /\ Get(entry, "rows").t = "array"

\* The entries of data.extracted_tables, when data is an object holding a
\* sequence there; no entries otherwise.
C12_Entries ==
  LET data == Get(convertResponse, "data")
      tables == Get(data, "extracted_tables")
  IN IF convertResponse.t = "object" /\ data.t = "object" /\ tables.t = "array"
     THEN tables.a
     ELSE << >>

\* The positions of the well-formed entries.
C12_Kept == {i \in 1..Len(C12_Entries) : C12_WellFormed(C12_Entries[i])}

\* C12: extractConvertTables never raises; it returns one table per
\* well-formed entry of data.extracted_tables, in the entries' order, each
\* with the columns and rows of its entry and nothing else; a response whose
\* data is no object or whose extracted_tables is no sequence gives none.
C12_TablesAreWellFormedEntries ==
  /\ convertTables # TypeErrorThrown
  /\ convertTables.t = "array"
  /\ Len(convertTables.a) = Cardinality(C12_Kept)
  /\ \A j \in 1..Len(convertTables.a) :
       \E i \in C12_Kept :
         /\ Cardinality({k \in C12_Kept : k <= i}) = j
         /\ convertTables.a[j].t = "object"
         /\ Len(convertTables.a[j].f) = 2
         /\ Get(convertTables.a[j], "columns") = Get(C12_Entries[i], "columns")
         /\ Get(convertTables.a[j], "rows") = Get(C12_Entries[i], "rows")

\* The stored response lists a table without rows, then the scores table
\* and the Day table: the scores table and the Day table come out, in that
\* order.
C12_Witness ==
  /\ \E s \in Slots : calls[s].pc = "done"
  /\ C12_Entries = << JObj(<< <<"columns", Cells(<<"Day">>)>> >>), ScoreTable, DayTable >>
  /\ Len(convertTables.a) = 2
  /\ Get(convertTables.a[1], "columns") = Cells(<<"Name", "Score">>)
  /\ Get(convertTables.a[2], "rows") = JArr(<<Cells(<<"1">>)>>)

\* The address C13 expects the upload request at.
C13_DocumentedUploadUrl ==
  IF env.NEXT_PUBLIC_UPLOAD_API_URL # Unset
  THEN env.NEXT_PUBLIC_UPLOAD_API_URL
  ELSE "https://parse.jivalearningsystem.com/api/upload-to-tmpfiles"

\* C13: every upload request is POSTed to the value of
\* NEXT_PUBLIC_UPLOAD_API_URL when that is set, and to the default address
\* only when it is not set.
C13_UploadGoesToDocumentedUrl ==
  \A s \in Slots : \A i \in 1..Len(calls[s].sent) :
    calls[s].sent[i].api = "upload" =>
      /\ calls[s].sent[i].method = "POST"
      /\ calls[s].sent[i].to = C13_DocumentedUploadUrl

\* C14: a click on Submit leaves apiResponse as it is and clears
\* convertResponse and error (error holds the message of the failure when
\* the submit fails before its first suspension); apiResponse changes only
\* to null (Reset, image selection) or to the body of an upload that
\* succeeded; a submit that fails before it has an upload result leaves
\* apiResponse as it is and sets error.
C14_SubmitKeepsUploadResult ==
  [][ /\ SubmitClick =>
           /\ apiResponse' = apiResponse
           /\ convertResponse' = NULL
           /\ IF isSubmitting' THEN error' = NULL ELSE error' # NULL
      /\ apiResponse' # apiResponse =>
           \/ apiResponse' = NULL
           \/ \E s \in Slots :
                /\ calls[s].pc = "uploadBody"
                /\ Ok(calls[s].status)
                /\ calls'[s].data = apiResponse'
      /\ \A s \in Slots :
           (Running(calls[s]) /\ calls'[s].pc = "failed" /\ calls'[s].data = NULL) =>
             /\ error' # NULL
             /\ apiResponse' = apiResponse
    ]_vars

\* Only the first slot was ever used: its latest submit failed without an
\* upload result, and the session holds that error together with the
\* upload result of an earlier submit.
C14_Witness ==
  /\ calls[1].pc = "failed"
  /\ calls[1].data = NULL
  /\ Len(calls[1].sent) = 1
  /\ \A s \in Slots : s # 1 => calls[s] = IdleCall
  /\ error # NULL
  /\ apiResponse \in UploadOkBodies

(***************************************************************************)
(* Every awaited step settles: the step a running invocation is suspended  *)
(* at is eventually resumed, with one of its outcomes.                     *)
(***************************************************************************)
Settles(s) ==
  \/ \E blobOk \in BOOLEAN : ToBlobDone(s, blobOk)
  \/ \E reached \in BOOLEAN, status \in Statuses : UploadSettles(s, reached, status)
  \/ \E body \in UploadErrorBodies \cup {Unparseable} : UploadErrorBody(s, body)
  \/ \E body \in UploadOkBodies \cup {Unparseable} : UploadBody(s, body)
  \/ \E reached \in BOOLEAN, status \in Statuses : ConvertSettles(s, reached, status)
  \/ \E body \in ConvertErrorBodies \cup {Unparseable} : ConvertErrorBody(s, body)
  \/ \E body \in ConvertOkBodies \cup {Unparseable} : ConvertBody(s, body)

SpecLive == Spec /\ \A s \in Slots : WF_vars(Settles(s))

\* C15: when every awaited step settles, isSubmitting goes back to false
\* whatever else happens meanwhile, and no submit is running while it is
\* false; the step on which a submit returns sets isSubmitting to false, and
\* by then the submit has set error (Failed) or has stored its upload result
\* (Done).
C15_SubmitTerminates ==
  /\ isSubmitting ~> ~isSubmitting
  /\ [](\A s \in Slots : Running(calls[s]) => isSubmitting)
  /\ [][ /\ \A s \in Slots :
              (Running(calls[s]) /\ ~Running(calls'[s])) =>
                /\ ~isSubmitting'
                /\ calls'[s].pc = "failed" => error' # NULL
                /\ calls'[s].pc = "done" => calls'[s].data \in UploadOkBodies
         /\ (SubmitClick /\ ~isSubmitting') => (error' # NULL \/ UNCHANGED vars)
       ]_vars

\* A submit has returned Done after Upload and Convert although Reset was
\* clicked while it ran: isSubmitting is false again, and the session shows
\* neither an image nor the upload result the submit had stored.
C15_Witness ==
  /\ ~isSubmitting
  /\ selectedImage = NULL
  /\ apiResponse = NULL
  /\ error = NULL
  /\ \E s \in Slots : calls[s].pc = "done" /\ Len(calls[s].sent) = 2

====
